---- MODULE Spec2Model ----
(***************************************************************************)
(* Model of cpp/model_verification.cpp: verify_model_signature (the        *)
(* verification gate) and load_model_safely (the load decision point).     *)
(*                                                                         *)
(* The mbedTLS primitives are library code outside the repository.  They   *)
(* are modelled by their documented contract: each returns 0 on success    *)
(* and a negative MBEDTLS_ERR_* code otherwise.  SHA-256 is an ideal       *)
(* (collision-free) hash over the bounded payload domain and the signature *)
(* scheme is ideal: exactly one byte string verifies for a key and digest. *)
(* Every primitive may also report a resource failure, whatever its input. *)
(***************************************************************************)
EXTENDS Integers, Sequences, FiniteSets, TLC

\* ------------------------------------------------------------------ bounds
\* Largest byte value of the modelled byte alphabet 0..MaxByte.
MaxByte == 1
\* Longest payload (model_size) the environment supplies.
MaxLen == 2

Base == MaxByte + 1
Byte == 0..MaxByte

RECURSIVE Pow(_, _)
Pow(b, n) == IF n = 0 THEN 1 ELSE b * Pow(b, n - 1)

\* ------------------------------------------- mbedTLS return codes (library)
MBEDTLS_ERR_PEM_INVALID_DATA == -4352
MBEDTLS_ERR_PEM_ALLOC_FAILED == -4480
MBEDTLS_ERR_SHA256_HW_ACCEL_FAILED == -55
MBEDTLS_ERR_ECP_VERIFY_FAILED == -19968
MBEDTLS_ERR_ECP_BAD_INPUT_DATA == -20448
MBEDTLS_ERR_MPI_ALLOC_FAILED == -16
MBEDTLS_ERR_PK_BAD_INPUT_DATA == -16000

\* Codes by which a primitive reports exhaustion of a resource (heap,
\* hardware accelerator) rather than a verdict on its input.
ResourceFailureCodes ==
    { MBEDTLS_ERR_PEM_ALLOC_FAILED, MBEDTLS_ERR_SHA256_HW_ACCEL_FAILED,
      MBEDTLS_ERR_MPI_ALLOC_FAILED }

\* ------------------------------------------------------------- key material
\* The key container compiled in as PUBLIC_KEY_PEM.  A well-formed container
\* holds the public half of key pair `key`; the literal of the reference
\* ("...AE...\n", base64 cut short by dots) is the malformed one.
PlaceholderPem == [wellFormed |-> FALSE, key |-> 0]
KeyIds == {0, 1}
KeyContainers == { [wellFormed |-> TRUE, key |-> k] : k \in KeyIds } \cup {PlaceholderPem}

\* ------------------------------------------------------------ ideal SHA-256
\* mbedtls_sha256_starts_ret resets the running state.
Sha256Iv == 1

\* mbedtls_sha256_update_ret absorbs the first n bytes of data.
RECURSIVE Absorb(_, _, _)
Absorb(acc, data, n) ==
    IF n = 0 THEN acc
    ELSE Absorb(acc, data, n - 1) * Base + data[n]

\* The digest of a payload: starts, update over the whole payload, finish.
Digest(data) == Absorb(Sha256Iv, data, Len(data))

HashValues == 0..(Pow(Base, MaxLen + 1) - 1)

\* --------------------------------------------------------- ideal signatures
SigLen == MaxLen + 2

\* The n base-Base digits of h, most significant first.
RECURSIVE Digits(_, _)
Digits(h, n) ==
    IF n = 0 THEN << >>
    ELSE Append(Digits(h \div Base, n - 1), h % Base)

\* The one signature the private half of key pair k produces over digest h.
Sign(k, h) == <<k>> \o Digits(h, SigLen - 1)

\* ---------------------------------------------------------------- packages
Payloads == UNION { [1..n -> Byte] : n \in 1..MaxLen }
ModelIds == {"object_detector_v2", "pose_estimator"}
ModelVersions == {"2.1.1", "2.1.2"}

\* The byte strings that differ from s in exactly one byte.
Flips(s) ==
    { [s EXCEPT ![x[1]] = x[2]] :
        x \in { y \in (1..Len(s)) \X Byte : s[y[1]] # y[2] } }

\* The signatures the environment attaches to payload d: for each signer the
\* genuine signature over d, every single-byte change of it, its truncation,
\* and the genuine signature over each payload that d is a single-byte
\* change of.
SignaturesFor(d) ==
    UNION { {Sign(k, Digest(d))}
              \cup Flips(Sign(k, Digest(d)))
              \cup {SubSeq(Sign(k, Digest(d)), 1, SigLen - 1)}
              \cup {Sign(k, Digest(d0)) : d0 \in Flips(d)} : k \in KeyIds }

\* model_package_t as the loader constructs it: the sizes are the lengths of
\* the buffers they describe.
MakePackage(data, sig, id, ver) ==
    [ model_data |-> data, model_size |-> Len(data),
      signature |-> sig, signature_size |-> Len(sig),
      model_id |-> id, model_version |-> ver ]

Packages ==
    UNION { { MakePackage(d, s, i, v) :
                s \in SignaturesFor(d), i \in ModelIds, v \in ModelVersions } :
            d \in Payloads }

\* No candidate is before the loader.
NoPackage == MakePackage(<< >>, << >>, "", "")

\* ------------------------------------------------- primitives (by contract)
\* mbedtls_pk_parse_public_key: 0 for a well-formed container, an error for a
\* malformed one; it allocates, so it may fail for lack of memory.
PkParseResults(pem) ==
    IF pem.wellFormed
    THEN {0, MBEDTLS_ERR_PEM_ALLOC_FAILED}
    ELSE {MBEDTLS_ERR_PEM_INVALID_DATA}

\* mbedtls_sha256_starts_ret / update_ret / finish_ret: 0, or the failure of
\* the engine behind them.
Sha256Results == {0, MBEDTLS_ERR_SHA256_HW_ACCEL_FAILED}

\* mbedtls_pk_verify on key context ctx, digest h and the first n bytes of sig.
PkVerifyResults(ctx, h, sig, n) ==
    IF ctx.st # "keyed" THEN {MBEDTLS_ERR_PK_BAD_INPUT_DATA}
    ELSE IF n # SigLen THEN {MBEDTLS_ERR_ECP_BAD_INPUT_DATA, MBEDTLS_ERR_MPI_ALLOC_FAILED}
    ELSE IF SubSeq(sig, 1, n) = Sign(ctx.key, h) THEN {0, MBEDTLS_ERR_MPI_ALLOC_FAILED}
    ELSE {MBEDTLS_ERR_ECP_VERIFY_FAILED, MBEDTLS_ERR_MPI_ALLOC_FAILED}

\* ------------------------------------------------------------------- state
VARIABLES
    PUBLIC_KEY_PEM,  \* the compiled-in key container
    package,         \* the model_package_t the caller passes
    pc,              \* position of the one thread of control
    pk,              \* mbedtls_pk_context pk
    sha256,          \* mbedtls_sha256_context sha256
    hash,            \* unsigned char hash[32]
    ret,             \* int ret of verify_model_signature
    out,             \* lines printed by the current call
    trace,           \* history: primitives invoked by the current call, in order
    load_ret,        \* int ret of load_model_safely
    result,          \* value load_model_safely returned
    loaded,          \* the model-loading step of load_model_safely was reached
    prev,            \* history: one earlier call, remembered for comparison
    parked           \* the locals of a second, suspended call of load_model_safely

vars == << PUBLIC_KEY_PEM, package, pc, pk, sha256, hash, ret, out, trace,
           load_ret, result, loaded, prev, parked >>

NoContext == [st |-> "none", key |-> 0]
NoSha == [st |-> "none", acc |-> 0]
\* A buffer or variable that was declared and not yet written.
Unwritten == [set |-> FALSE, val |-> 0]
NoPrev == [set |-> FALSE, model_data |-> << >>, signature |-> << >>,
           outcome |-> "none", clean |-> FALSE, between |-> FALSE]

\* The locals of a call that has not been given a package yet.
IdleFrame ==
    [ package |-> MakePackage(<< >>, << >>, "", ""), pc |-> "idle",
      pk |-> NoContext, sha256 |-> NoSha, hash |-> Unwritten, ret |-> 0,
      out |-> << >>, trace |-> << >>, load_ret |-> 0, result |-> 0,
      loaded |-> FALSE ]

\* What an uninitialised int may hold.
IntGarbage == {0, MBEDTLS_ERR_PK_BAD_INPUT_DATA}

Event(op, rc) == [op |-> op, rc |-> rc]
Line(text, code, id, ver) == [text |-> text, code |-> code, id |-> id, version |-> ver]

\* ------------------------------------------------- the tests the code makes
\* Mutant: the test written for positive error codes.
ParseFailedIfPositive(r) == r > 0
\* line 48: if (ret != 0) after the key parse
ParseFailed(r) == r # 0

\* Mutant: the digest results are not tested.
DigestStepNeverFailed(r) == FALSE
\* lines 55, 60, 63: if (ret != 0) goto cleanup after each digest step
DigestStepFailed(r) == r # 0

\* Mutant: only the scheme's own "signature does not verify" code counts as
\* a failed check.
SignatureVerifiedUnlessMismatch(r) == r # MBEDTLS_ERR_ECP_VERIFY_FAILED
\* line 70: if (ret == 0) after mbedtls_pk_verify
SignatureVerified(r) == r = 0

\* Mutant: cleanup ends with return 0.
ReturnValueZero(r) == 0
\* line 80: return ret
ReturnValue(r) == r

\* Mutant: only a failed signature check refuses the load.
LoadRefusedOnMismatchOnly(r) == r = MBEDTLS_ERR_ECP_VERIFY_FAILED
\* line 90: if (ret != 0) in load_model_safely
LoadRefused(r) == r # 0

\* Mutant: the last byte of the payload is left out of the digest.
UpdatedOffByOne(ctx, pkg) ==
    [ctx EXCEPT !.acc = Absorb(ctx.acc, pkg.model_data, pkg.model_size - 1)]
\* lines 57-59: the running digest after the whole payload was absorbed
Updated(ctx, pkg) ==
    [ctx EXCEPT !.acc = Absorb(ctx.acc, pkg.model_data, pkg.model_size)]

\* -------------------------------------------------------------------- Init
Init ==
    /\ PUBLIC_KEY_PEM \in KeyContainers
    /\ package = NoPackage
    /\ pc = "idle"
    /\ pk = NoContext
    /\ sha256 = NoSha
    /\ hash = Unwritten
    /\ ret = 0
    /\ out = << >>
    /\ trace = << >>
    /\ load_ret = 0
    /\ result = 0
    /\ loaded = FALSE
    /\ prev = NoPrev
    /\ parked = IdleFrame

\* ----------------------------------------------------------------- actions
\* Mutant: the package is loaded tentatively before it is verified.
VerifyEnterAfterTentativeLoad ==
    /\ pc = "load_entry"
    /\ pk' = [st |-> "init", key |-> 0]
    /\ sha256' = [st |-> "init", acc |-> 0]
    /\ hash' = Unwritten
    /\ ret' \in IntGarbage
    /\ trace' = trace \o << Event("pk_init", 0), Event("sha256_init", 0) >>
    /\ pc' = "parse"
    /\ loaded' = TRUE
    /\ UNCHANGED << PUBLIC_KEY_PEM, package, out, load_ret, result, prev, parked >>

\* load_model_safely calls verify_model_signature (line 89), which declares
\* its locals and initialises both contexts (lines 35-42).
VerifyEnter ==
    /\ pc = "load_entry"
    /\ pk' = [st |-> "init", key |-> 0]
    /\ sha256' = [st |-> "init", acc |-> 0]
    /\ hash' = Unwritten
    /\ ret' \in IntGarbage
    /\ trace' = trace \o << Event("pk_init", 0), Event("sha256_init", 0) >>
    /\ pc' = "parse"
    /\ UNCHANGED << PUBLIC_KEY_PEM, package, out, load_ret, result, loaded, prev, parked >>

\* Mutant: the key-parse failure path returns at once instead of jumping to
\* cleanup.
ParseKeyEarlyReturn ==
    /\ pc = "parse"
    /\ \E rc \in PkParseResults(PUBLIC_KEY_PEM) :
        /\ ret' = rc
        /\ pk' = IF rc = 0 THEN [st |-> "keyed", key |-> PUBLIC_KEY_PEM.key] ELSE pk
        /\ trace' = Append(trace, Event("pk_parse_public_key", rc))
        /\ IF ParseFailed(rc)
           THEN /\ out' = Append(out, Line("Failed to parse public key", rc, "", ""))
                /\ load_ret' = ReturnValue(rc)
                /\ pc' = "verify_returned"
           ELSE /\ out' = out
                /\ load_ret' = load_ret
                /\ pc' = "starts"
    /\ UNCHANGED << PUBLIC_KEY_PEM, package, sha256, hash, result, loaded, prev, parked >>

\* lines 45-51
ParseKey ==
    /\ pc = "parse"
    /\ \E rc \in PkParseResults(PUBLIC_KEY_PEM) :
        /\ ret' = rc
        /\ pk' = IF rc = 0 THEN [st |-> "keyed", key |-> PUBLIC_KEY_PEM.key] ELSE pk
        /\ trace' = Append(trace, Event("pk_parse_public_key", rc))
        /\ IF ParseFailed(rc)
           THEN /\ out' = Append(out, Line("Failed to parse public key", rc, "", ""))
                /\ pc' = "cleanup"
           ELSE /\ out' = out
                /\ pc' = "starts"
    /\ UNCHANGED << PUBLIC_KEY_PEM, package, sha256, hash, load_ret, result, loaded, prev, parked >>

\* Mutant: a failed start of the digest is tried again.
ShaStartsRetrying ==
    /\ pc = "starts"
    /\ \E rc \in Sha256Results :
        /\ ret' = rc
        /\ sha256' = IF rc = 0 THEN [st |-> "started", acc |-> Sha256Iv] ELSE sha256
        /\ trace' = Append(trace, Event("sha256_starts", rc))
        /\ pc' = IF DigestStepFailed(rc) THEN "starts" ELSE "update"
    /\ UNCHANGED << PUBLIC_KEY_PEM, package, pk, hash, out, load_ret, result, loaded, prev, parked >>

\* lines 54-55
ShaStarts ==
    /\ pc = "starts"
    /\ \E rc \in Sha256Results :
        /\ ret' = rc
        /\ sha256' = IF rc = 0 THEN [st |-> "started", acc |-> Sha256Iv] ELSE sha256
        /\ trace' = Append(trace, Event("sha256_starts", rc))
        /\ pc' = IF DigestStepFailed(rc) THEN "cleanup" ELSE "update"
    /\ UNCHANGED << PUBLIC_KEY_PEM, package, pk, hash, out, load_ret, result, loaded, prev, parked >>

\* lines 57-60
ShaUpdate ==
    /\ pc = "update"
    /\ \E rc \in Sha256Results :
        /\ ret' = rc
        /\ sha256' = IF rc = 0 THEN Updated(sha256, package) ELSE sha256
        /\ trace' = Append(trace, Event("sha256_update", rc))
        /\ pc' = IF DigestStepFailed(rc) THEN "cleanup" ELSE "finish"
    /\ UNCHANGED << PUBLIC_KEY_PEM, package, pk, hash, out, load_ret, result, loaded, prev, parked >>

\* Mutant: the digest is not written to the buffer the signature check reads.
FinishedElsewhere(ctx) == Unwritten
\* line 62: the hash buffer after mbedtls_sha256_finish_ret wrote the digest
Finished(ctx) == [set |-> TRUE, val |-> ctx.acc]

\* lines 62-63
ShaFinish ==
    /\ pc = "finish"
    /\ \E rc \in Sha256Results :
        /\ ret' = rc
        /\ hash' = IF rc = 0 THEN Finished(sha256) ELSE hash
        /\ sha256' = IF rc = 0 THEN [sha256 EXCEPT !.st = "finished"] ELSE sha256
        /\ trace' = Append(trace, Event("sha256_finish", rc))
        /\ pc' = IF DigestStepFailed(rc) THEN "cleanup" ELSE "pk_verify"
    /\ UNCHANGED << PUBLIC_KEY_PEM, package, pk, out, load_ret, result, loaded, prev, parked >>

\* lines 66-75: a read of the hash buffer before it was written yields any value
PkVerify ==
    /\ pc = "pk_verify"
    /\ \E h \in (IF hash.set THEN {hash.val} ELSE HashValues) :
       \E rc \in PkVerifyResults(pk, h, package.signature, package.signature_size) :
        /\ ret' = rc
        /\ trace' = Append(trace, Event("pk_verify", rc))
        /\ out' = IF SignatureVerified(rc)
                  THEN Append(out, Line("Model signature verified", 0,
                                        package.model_id, package.model_version))
                  ELSE Append(out, Line("Model signature verification failed", rc, "", ""))
    /\ pc' = "cleanup"
    /\ UNCHANGED << PUBLIC_KEY_PEM, package, pk, sha256, hash, load_ret, result, loaded, prev, parked >>

\* lines 77-80 and the assignment of line 89
Cleanup ==
    /\ pc = "cleanup"
    /\ pk' = [pk EXCEPT !.st = "freed"]
    /\ sha256' = [sha256 EXCEPT !.st = "freed"]
    /\ trace' = trace \o << Event("pk_free", 0), Event("sha256_free", 0) >>
    /\ load_ret' = ReturnValue(ret)
    /\ pc' = "verify_returned"
    /\ UNCHANGED << PUBLIC_KEY_PEM, package, hash, ret, out, result, loaded, prev, parked >>

\* Mutant: a package naming the known model is loaded whatever the
\* verification returned.
LoadDecideTrustingKnownId ==
    /\ pc = "verify_returned"
    /\ IF LoadRefused(load_ret) /\ package.model_id # "object_detector_v2"
       THEN /\ result' = -1
            /\ loaded' = FALSE
       ELSE /\ result' = 0
            /\ loaded' = TRUE
    /\ pc' = "done"
    /\ UNCHANGED << PUBLIC_KEY_PEM, package, pk, sha256, hash, ret, out, trace, load_ret, prev, parked >>

\* Mutant: the payload of a refused package is wiped.
LoadDecideWipingRefused ==
    /\ pc = "verify_returned"
    /\ IF LoadRefused(load_ret)
       THEN /\ result' = -1
            /\ loaded' = FALSE
            /\ package' = [package EXCEPT !.model_data = << >>, !.model_size = 0]
       ELSE /\ result' = 0
            /\ loaded' = TRUE
            /\ package' = package
    /\ pc' = "done"
    /\ UNCHANGED << PUBLIC_KEY_PEM, pk, sha256, hash, ret, out, trace, load_ret, prev, parked >>

\* lines 90-102
LoadDecide ==
    /\ pc = "verify_returned"
    /\ IF LoadRefused(load_ret)
       THEN /\ result' = -1
            /\ loaded' = FALSE
       ELSE /\ result' = 0
            /\ loaded' = TRUE
    /\ pc' = "done"
    /\ UNCHANGED << PUBLIC_KEY_PEM, package, pk, sha256, hash, ret, out, trace, load_ret, prev, parked >>

\* The caller consumes the decision and discards the package.
Discard ==
    /\ pc = "done"
    /\ package' = NoPackage
    /\ pc' = "idle"
    /\ pk' = NoContext
    /\ sha256' = NoSha
    /\ hash' = Unwritten
    /\ ret' = 0
    /\ out' = << >>
    /\ trace' = << >>
    /\ load_ret' = 0
    /\ result' = 0
    /\ loaded' = FALSE
    /\ UNCHANGED << PUBLIC_KEY_PEM, prev, parked >>

\* The caller passes a candidate package to load_model_safely (line 87).
Present(pkgs) ==
    /\ pc = "idle"
    /\ package' \in pkgs
    /\ pc' = "load_entry"
    /\ UNCHANGED << PUBLIC_KEY_PEM, pk, sha256, hash, ret, out, trace,
                    load_ret, result, loaded, parked >>

LoadCall == Present(Packages) /\ UNCHANGED prev

Next ==
    \/ VerifyEnter
    \/ ParseKey
    \/ ShaStarts
    \/ ShaUpdate
    \/ ShaFinish
    \/ PkVerify
    \/ Cleanup
    \/ LoadDecide
    \/ Discard
    \/ LoadCall

Spec == Init /\ [][Next]_vars

\* ------------------------------------------------- reading a call's result
\* verify_model_signature has returned to load_model_safely.
VerifyReturned == pc \in {"verify_returned", "done"}

\* The verification outcome of the specification, read off what a returned
\* call shows its caller: the value returned (line 80) and the diagnostic
\* printed (lines 49 and 74; a digest failure prints nothing).
Outcome(r, lines) ==
    IF r = 0 THEN "Admitted"
    ELSE IF \E i \in 1..Len(lines) : lines[i].text = "Failed to parse public key"
         THEN "KeyParseError"
    ELSE IF \E i \in 1..Len(lines) : lines[i].text = "Model signature verification failed"
         THEN "SignatureInvalid"
    ELSE IF lines = << >> THEN "DigestComputationError"
    ELSE "Unclassified"

DigestSteps == {"sha256_starts", "sha256_update", "sha256_finish"}
StepOrder == << "pk_parse_public_key", "sha256_starts", "sha256_update",
                "sha256_finish", "pk_verify" >>
StepNames == { StepOrder[i] : i \in 1..Len(StepOrder) }

IsStep(e) == e.op \in StepNames
\* The cryptographic steps the current call has made so far, in order.
Steps == SelectSeq(trace, IsStep)

Invoked(op) == \E i \in 1..Len(trace) : trace[i].op = op
Succeeded(op) == \E i \in 1..Len(trace) : trace[i].op = op /\ trace[i].rc = 0
Failed(op) == \E i \in 1..Len(trace) : trace[i].op = op /\ trace[i].rc # 0
Count(op) == Cardinality({ i \in 1..Len(trace) : trace[i].op = op })

\* No primitive of the current call reported a resource failure.
NoResourceFailure == \A i \in 1..Len(trace) : trace[i].rc \notin ResourceFailureCodes

\* The package carries the signature the trusted key's pair produces over
\* the digest of its payload.
GenuinelySigned ==
    /\ PUBLIC_KEY_PEM.wellFormed
    /\ package.signature = Sign(PUBLIC_KEY_PEM.key, Digest(package.model_data))

\* The package is a genuinely signed one with one byte of the payload or one
\* byte of the signature changed.
Tampered ==
    /\ PUBLIC_KEY_PEM.wellFormed
    /\ \/ \E d0 \in Flips(package.model_data) :
            package.signature = Sign(PUBLIC_KEY_PEM.key, Digest(d0))
       \/ \E s0 \in Flips(package.signature) :
            s0 = Sign(PUBLIC_KEY_PEM.key, Digest(package.model_data))

\* ------------------------------------------- repeated calls, one remembered
\* A second specification: the same program, with the history variable prev
\* keeping the inputs and the outcome of one completed call, so that a later
\* call on the same inputs can be compared with it.
SameInputs(pkg, rec) ==
    /\ pkg.model_data = rec.model_data
    /\ pkg.signature = rec.signature

PackagesOneId ==
    { p \in Packages : p.model_id = "object_detector_v2" /\ p.model_version = "2.1.1" }

\* Candidates presented between the remembered call and its repetition.
InBetweenPackages ==
    { p \in PackagesOneId :
        /\ p.model_data = <<0>>
        /\ \E k \in KeyIds : p.signature = Sign(k, Digest(<<0>>)) }

\* History only: note the call that has just completed.
Remember ==
    /\ pc = "done"
    /\ ~prev.set
    /\ prev' = [ set |-> TRUE,
                 model_data |-> package.model_data,
                 signature |-> package.signature,
                 outcome |-> Outcome(load_ret, out),
                 clean |-> NoResourceFailure,
                 between |-> FALSE ]
    /\ UNCHANGED << PUBLIC_KEY_PEM, package, pc, pk, sha256, hash, ret, out, trace,
                    load_ret, result, loaded, parked >>

\* The caller passes a candidate; once a call is remembered the candidates are
\* its inputs again or one of the packages in between.
LoadCallRepeat ==
    /\ Present(IF prev.set
               THEN { q \in PackagesOneId : SameInputs(q, prev) } \cup InBetweenPackages
               ELSE PackagesOneId)
    /\ prev' = IF prev.set /\ ~SameInputs(package', prev)
               THEN [prev EXCEPT !.between = TRUE]
               ELSE prev

NextRepeat ==
    \/ VerifyEnter
    \/ ParseKey
    \/ ShaStarts
    \/ ShaUpdate
    \/ ShaFinish
    \/ PkVerify
    \/ Cleanup
    \/ LoadDecide
    \/ Remember
    \/ Discard
    \/ LoadCallRepeat

SpecRepeat == Init /\ [][NextRepeat]_vars

\* ------------------------------------------------------ two calls at once
\* A third specification: two threads each call load_model_safely on a
\* package of their own.  The variables hold the locals of the running call,
\* parked those of the suspended one; the scheduler may switch between two
\* steps.  PUBLIC_KEY_PEM, a constant, is all the two calls share.
Frame ==
    [ package |-> package, pc |-> pc, pk |-> pk, sha256 |-> sha256,
      hash |-> hash, ret |-> ret, out |-> out, trace |-> trace,
      load_ret |-> load_ret, result |-> result, loaded |-> loaded ]

\* Mutant: hash is one static buffer, the same for every call.
SharedHash(own, current) == current
\* line 37: hash has automatic storage; a resumed call finds its own buffer
SwitchedHash(own, current) == own

Switch ==
    /\ parked' = Frame
    /\ package' = parked.package
    /\ pc' = parked.pc
    /\ pk' = parked.pk
    /\ sha256' = parked.sha256
    /\ hash' = SwitchedHash(parked.hash, hash)
    /\ ret' = parked.ret
    /\ out' = parked.out
    /\ trace' = parked.trace
    /\ load_ret' = parked.load_ret
    /\ result' = parked.result
    /\ loaded' = parked.loaded
    /\ UNCHANGED << PUBLIC_KEY_PEM, prev >>

\* The candidates of the two threads.
ConcurrentPackages ==
    { p \in PackagesOneId :
        /\ p.model_size = 1
        /\ \E k \in KeyIds : p.signature = Sign(k, Digest(p.model_data)) }

\* A thread passes its candidate, another package than the other thread's.
LoadCallConcurrent ==
    /\ Present(ConcurrentPackages \ {parked.package})
    /\ UNCHANGED prev

NextConcurrent ==
    \/ VerifyEnter
    \/ ParseKey
    \/ ShaStarts
    \/ ShaUpdate
    \/ ShaFinish
    \/ PkVerify
    \/ Cleanup
    \/ LoadDecide
    \/ LoadCallConcurrent
    \/ Switch

SpecConcurrent == Init /\ [][NextConcurrent]_vars

\* ------------------------------------------------------------ with progress
\* A fourth specification: the program of Spec, with the thread that has
\* entered load_model_safely taking its next step.  The code is sequential,
\* does not block and each primitive returns.
CallStep ==
    \/ VerifyEnter
    \/ ParseKey
    \/ ShaStarts
    \/ ShaUpdate
    \/ ShaFinish
    \/ PkVerify
    \/ Cleanup
    \/ LoadDecide

SpecFair == Init /\ [][Next]_vars /\ WF_vars(CallStep)

\* ------------------------------------------------------------------ claims
\* C1: load_model_safely reaches the model-loading step, and returns 0, only
\* when its one call of verify_model_signature returned 0; for every
\* non-zero verification result it returns -1 without reaching that step.
C1_LoadOnlyIfAdmitted ==
    /\ loaded => /\ pc = "done"
                 /\ load_ret = 0
                 /\ result = 0
                 /\ Count("pk_init") = 1
    /\ pc = "done" =>
        IF load_ret = 0
        THEN loaded /\ result = 0
        ELSE ~loaded /\ result = -1

C1_Witness ==
    /\ pc = "done"
    /\ load_ret = MBEDTLS_ERR_PEM_INVALID_DATA
    /\ result = -1
    /\ ~loaded

\* C2: verify_model_signature returns 0 (Admitted) only if, in that call, the
\* key parse, each of the three digest steps and the signature check were
\* all executed and all returned success.
C2_AdmittedOnlyIfAllStepsSucceeded ==
    (VerifyReturned /\ load_ret = 0) =>
        /\ \A op \in StepNames : Succeeded(op)
        /\ \A i \in 1..Len(trace) : trace[i].rc = 0

C2_Witness ==
    /\ VerifyReturned
    /\ load_ret = 0
    /\ Len(Steps) = 5

\* C3: with a well-formed trusted key, a signature produced by the paired
\* private key over the digest of the payload, and no primitive reporting a
\* resource failure, verify returns Admitted.
C3_GenuinePackageAdmitted ==
    (VerifyReturned /\ GenuinelySigned /\ NoResourceFailure) =>
        Outcome(load_ret, out) = "Admitted"

C3_Witness ==
    /\ VerifyReturned
    /\ GenuinelySigned
    /\ NoResourceFailure
    /\ package.model_size = MaxLen
    /\ Outcome(load_ret, out) = "Admitted"

\* C4 as stated: a genuinely signed package with one byte of the payload or
\* one byte of the signature changed makes verify return
\* Rejected(SignatureInvalid).
C4_TamperedAlwaysSignatureInvalid ==
    (VerifyReturned /\ Tampered) => Outcome(load_ret, out) = "SignatureInvalid"

\* C4 amended: such a package is never Admitted, and is
\* Rejected(SignatureInvalid) whenever the key parse and the digest steps of
\* that call succeeded, so that the signature check was made.
C4_TamperedRejected ==
    (VerifyReturned /\ Tampered) =>
        /\ Outcome(load_ret, out) # "Admitted"
        /\ Succeeded("pk_parse_public_key") /\ Succeeded("sha256_finish")
             => Outcome(load_ret, out) = "SignatureInvalid"

C4_Witness ==
    /\ VerifyReturned
    /\ Tampered
    /\ load_ret = MBEDTLS_ERR_ECP_VERIFY_FAILED
    /\ Outcome(load_ret, out) = "SignatureInvalid"

\* C5: when the key parse fails, verify ends in Rejected(KeyParseError),
\* never Admitted, and neither a digest step nor the signature check is
\* invoked in that call.
C5_KeyParseFailure ==
    Failed("pk_parse_public_key") =>
        /\ \A op \in DigestSteps \cup {"pk_verify"} : ~Invoked(op)
        /\ VerifyReturned => Outcome(load_ret, out) = "KeyParseError"

C5_Witness ==
    /\ VerifyReturned
    /\ ~PUBLIC_KEY_PEM.wellFormed
    /\ Failed("pk_parse_public_key")
    /\ Outcome(load_ret, out) = "KeyParseError"

\* C6: when a digest step (starts, update or finish) fails, verify ends in
\* Rejected(DigestComputationError), which is none of the other kinds, and
\* the signature check is not invoked on the unfinished hash buffer.
C6_DigestFailure ==
    (\E op \in DigestSteps : Failed(op)) =>
        /\ ~Invoked("pk_verify")
        /\ ~hash.set
        /\ VerifyReturned =>
            /\ Outcome(load_ret, out) = "DigestComputationError"
            /\ load_ret = MBEDTLS_ERR_SHA256_HW_ACCEL_FAILED

C6_Witness ==
    /\ VerifyReturned
    /\ Failed("sha256_finish")
    /\ Outcome(load_ret, out) = "DigestComputationError"

\* C7: every non-success return of the signature check, whatever its code,
\* yields the one outcome Rejected(SignatureInvalid) and the one load
\* decision, refusal.
C7_AnySignatureFailureIsSignatureInvalid ==
    (VerifyReturned /\ Failed("pk_verify")) =>
        /\ Outcome(load_ret, out) = "SignatureInvalid"
        /\ pc = "done" => (result = -1 /\ ~loaded)

C7_Witness ==
    /\ pc = "done"
    /\ Failed("pk_verify")
    /\ load_ret \notin {0, MBEDTLS_ERR_ECP_VERIFY_FAILED}
    /\ Outcome(load_ret, out) = "SignatureInvalid"

\* C8: the steps of a call are a prefix of key parse, digest starts, update,
\* finish, signature check; every step but the last one made has succeeded
\* (the first failure ends the sequence); an Admitted call has made all five.
C8_StepOrder ==
    /\ Len(Steps) <= Len(StepOrder)
    /\ \A i \in 1..Len(Steps) :
        /\ Steps[i].op = StepOrder[i]
        /\ i < Len(Steps) => Steps[i].rc = 0
    /\ (VerifyReturned /\ Outcome(load_ret, out) = "Admitted") => Len(Steps) = 5

C8_Witness ==
    /\ VerifyReturned
    /\ Len(Steps) = 3
    /\ Steps[3].rc # 0

\* C9: on every exit path both contexts initialised at entry are released
\* exactly once before verify returns, never before, and no primitive uses a
\* context after its release.
C9_ContextsReleasedOnce ==
    /\ VerifyReturned =>
        /\ Count("pk_init") = 1 /\ Count("sha256_init") = 1
        /\ Count("pk_free") = 1 /\ Count("sha256_free") = 1
        /\ pk.st = "freed" /\ sha256.st = "freed"
    /\ pc \in {"parse", "starts", "update", "finish", "pk_verify", "cleanup"} =>
        /\ Count("pk_free") = 0 /\ Count("sha256_free") = 0
        /\ pk.st \notin {"none", "freed"} /\ sha256.st \notin {"none", "freed"}
    /\ \A i, j \in 1..Len(trace) :
        (trace[i].op \in {"pk_free", "sha256_free"} /\ i < j) =>
            trace[j].op \in {"pk_free", "sha256_free"}

C9_Witness ==
    /\ VerifyReturned
    /\ Failed("sha256_update")
    /\ Count("pk_free") = 1 /\ Count("sha256_free") = 1

C11_EveryOutcomeLogged ==
    VerifyReturned =>
        \E i \in 1..Len(out) :
            /\ out[i].id = package.model_id
            /\ out[i].version = package.model_version
            /\ out[i].text \in { "Model signature verified",
                                 "Failed to parse public key",
                                 "Model signature verification failed" }

\* The primitive of the current call that reported a resource failure, if any.
FailureIn(tr) ==
    IF \A i \in 1..Len(tr) : tr[i].rc \notin ResourceFailureCodes THEN "none"
    ELSE tr[CHOOSE i \in 1..Len(tr) : tr[i].rc \in ResourceFailureCodes].op

ResourceFailureAt == FailureIn(trace)

\* The outcome as a function of the key container, the payload, the signature
\* and the primitive that reported a resource failure; it reads neither
\* identifier nor version.
DecisionFor(pem, data, sig, failure) ==
    IF ~pem.wellFormed \/ failure = "pk_parse_public_key" THEN "KeyParseError"
    ELSE IF failure \in DigestSteps THEN "DigestComputationError"
    ELSE IF failure = "pk_verify" THEN "SignatureInvalid"
    ELSE IF sig = Sign(pem.key, Digest(data)) THEN "Admitted"
    ELSE "SignatureInvalid"

\* C12: the outcome of verify_model_signature and the decision of
\* load_model_safely are determined by payload, signature, key and the
\* primitives' failures alone: packages that agree on payload and signature
\* and differ in model_id or model_version get the same outcome and decision.
C12_IdentityNotATrustInput ==
    VerifyReturned =>
        /\ Outcome(load_ret, out) =
              DecisionFor(PUBLIC_KEY_PEM, package.model_data, package.signature,
                          ResourceFailureAt)
        /\ pc = "done" =>
              /\ loaded = (Outcome(load_ret, out) = "Admitted")
              /\ result = IF Outcome(load_ret, out) = "Admitted" THEN 0 ELSE -1

C12_Witness ==
    /\ pc = "done"
    /\ package.model_id = "pose_estimator"
    /\ package.model_version = "2.1.2"
    /\ package.signature # Sign(PUBLIC_KEY_PEM.key, Digest(package.model_data))
    /\ PUBLIC_KEY_PEM.wellFormed
    /\ NoResourceFailure
    /\ result = -1

\* What a call that ran alone shows in the locals f of a call: its key context
\* holds the trusted key, its digest context and hash buffer the digest of
\* its own payload, and its outcome is the one its own inputs determine.
RunsAsAlone(f) ==
    /\ f.pc \in {"starts", "update", "finish", "pk_verify"} =>
          f.pk = [st |-> "keyed", key |-> PUBLIC_KEY_PEM.key]
    /\ f.pc = "finish" => f.sha256.acc = Digest(f.package.model_data)
    /\ f.pc = "pk_verify" => f.hash = [set |-> TRUE, val |-> Digest(f.package.model_data)]
    /\ f.pc \in {"verify_returned", "done"} =>
          Outcome(f.load_ret, f.out) =
             DecisionFor(PUBLIC_KEY_PEM, f.package.model_data, f.package.signature,
                         FailureIn(f.trace))

\* C13: in every interleaving of two verify calls on different packages each
\* call works on its own key context, digest context and hash buffer, and
\* its outcome is the one it produces when run alone.
C13_ConcurrentCallsIndependent ==
    /\ RunsAsAlone(Frame)
    /\ RunsAsAlone(parked)

C13_Witness ==
    /\ VerifyReturned
    /\ Outcome(load_ret, out) = "Admitted"
    /\ parked.pc = "pk_verify"
    /\ Len(parked.trace) > 0
    /\ parked.package # package
    /\ parked.package.signature #
          Sign(PUBLIC_KEY_PEM.key, Digest(parked.package.model_data))

\* C14: load_model_safely calls verify exactly once for its candidate, and
\* the loading step is reached only after that call has returned: the
\* package is never loaded while verification is pending or not started.
C14_VerifyOnceBeforeLoad ==
    /\ pc \in {"idle", "load_entry"} => (Count("pk_init") = 0 /\ ~loaded)
    /\ pc \in {"parse", "starts", "update", "finish", "pk_verify", "cleanup"} =>
          (Count("pk_init") = 1 /\ Count("pk_free") = 0 /\ ~loaded)
    /\ VerifyReturned => (Count("pk_init") = 1 /\ Count("pk_free") = 1)
    /\ pc = "verify_returned" => ~loaded

C14_Witness ==
    /\ pc = "done"
    /\ loaded
    /\ Count("pk_init") = 1
    /\ Count("pk_free") = 1

\* The positions of a call in program order.
PcOrder == << "idle", "load_entry", "parse", "starts", "update", "finish",
              "pk_verify", "cleanup", "verify_returned", "done" >>
Rank(p) == CHOOSE i \in 1..Len(PcOrder) : PcOrder[i] = p

\* A step of a call between its first and its last primitive moves it to a
\* later position, and to cleanup when the step returned failure.
MovesForward ==
    pc \in {"parse", "starts", "update", "finish", "pk_verify"} =>
        /\ Rank(pc') > Rank(pc)
        /\ (ret' # 0 => pc' = "cleanup")

\* C15: a verify call never retries: each primitive is invoked at most once
\* per call, every step moves the call forward, and a step that returned
\* failure moves it directly to the rejecting exit.
C15_NoRetry ==
    /\ [](\A op \in StepNames : Count(op) <= 1)
    /\ [][MovesForward]_vars

C15_Witness ==
    /\ pc = "cleanup"
    /\ Len(Steps) = 2
    /\ Steps[2].op = "sha256_starts"
    /\ Steps[2].rc # 0

TerminalOutcomes ==
    {"Admitted", "KeyParseError", "DigestComputationError", "SignatureInvalid"}

\* C16: every verify call that is started returns, and a returned call shows
\* exactly one of Admitted, Rejected(KeyParseError),
\* Rejected(DigestComputationError), Rejected(SignatureInvalid); Admitted is
\* the return of 0 and each rejection a non-zero return.
C16_TerminatesInOneOutcome ==
    /\ [](VerifyReturned =>
            /\ Outcome(load_ret, out) \in TerminalOutcomes
            /\ (Outcome(load_ret, out) = "Admitted") = (load_ret = 0))
    /\ (pc = "load_entry") ~> VerifyReturned

C16_Witness ==
    /\ pc = "verify_returned"
    /\ Outcome(load_ret, out) = "DigestComputationError"
    /\ Len(Steps) = 4

\* A step taken inside load_model_safely or verify_model_signature leaves the
\* package and the key material as they were.
InputsKept ==
    pc \in {"load_entry", "parse", "starts", "update", "finish", "pk_verify",
            "cleanup", "verify_returned"} =>
        /\ package' = package
        /\ PUBLIC_KEY_PEM' = PUBLIC_KEY_PEM

\* C17: verify_model_signature and load_model_safely leave the package
\* (payload, signature, sizes, identifier, version) and the trusted key
\* material unchanged on every path.
C17_InputsUnchanged == [][InputsKept]_vars

C17_Witness ==
    /\ pc = "done"
    /\ result = -1
    /\ package \in Packages
    /\ package.model_size = MaxLen

\* The return code of the first step of the current call that failed, 0 when
\* none has.
FirstFailureCode ==
    IF \A i \in 1..Len(Steps) : Steps[i].rc = 0 THEN 0
    ELSE Steps[CHOOSE i \in 1..Len(Steps) :
                  /\ Steps[i].rc # 0
                  /\ \A j \in 1..(i - 1) : Steps[j].rc = 0].rc

\* C18: verify_model_signature returns exactly the return code of the first
\* primitive that failed in the call, or 0 if none failed; no later step
\* overwrites that code and cleanup does not change it.
C18_ReturnsFirstFailureCode ==
    /\ pc = "cleanup" => ret = FirstFailureCode
    /\ VerifyReturned => (ret = FirstFailureCode /\ load_ret = FirstFailureCode)

C18_Witness ==
    /\ VerifyReturned
    /\ Len(Steps) = 5
    /\ load_ret = MBEDTLS_ERR_MPI_ALLOC_FAILED

====
